---- MODULE Spec2Model ----
(***************************************************************************)
(* A model of DL-Art-School's multiscale tile dataset                      *)
(* (codes/data/multiscale_dataset.py) and of the construction and forward  *)
(* evaluation of DiffusionVocoderWithRefTruncatedTop                       *)
(* (codes/models/gpt_voice/unet_diffusion_vocoder_with_ref_trunc_top.py).  *)
(***************************************************************************)
EXTENDS Integers, Sequences, FiniteSets, TLC

(***************************************************************************)
(* Bounds of the model.                                                    *)
(***************************************************************************)
\* largest depth handed to build_multiscale_patch_index_map
MaxDepth == 3
\* largest num_scales of a MultiScaleDataset
MaxScales == 3
\* largest hq_tile_size of a MultiScaleDataset
MaxTile == 2
\* depth of the call stack at which the interpreter raises RecursionError
RecursionLimit == 6
\* largest height and width of an image handed to get_square_image
MaxSide == 6
\* the offsets drawn are the multiples of 1/OffsetDen in [-1, 1]
OffsetDen == 4
\* largest length of channel_mult and of num_res_blocks
MaxLevels == 2
\* an entry m of channel_mult stands for the multiplier m / MultDen
MultDen == 2
\* largest length of an input x, in units of LengthUnit
MaxUnits == 1

VARIABLES
    \* ---- build_multiscale_patch_index_map ----
    tdepth,      \* the argument depth
    nodes,       \* arena of MultiscaleTreeNode objects, in creation order
    leaves,      \* the list leaves (arena positions)
    tstack,      \* call stack of _build_multiscale_patch_index_map
    tpc,         \* "init", "running", "returned", "RecursionError"
    tresult,     \* what build_multiscale_patch_index_map returned
    \* ---- MultiScaleDataset.__getitem__ / recursively_extract_patches ----
    tile_size,   \* self.tile_size
    num_scales,  \* self.num_scales
    patches_hq,  \* the list patches_hq (result_list)
    pstack,      \* call stack of recursively_extract_patches
    ppc,         \* "init", "running", "returned"
    \* ---- the leaf-to-root walk of __main__ ----
    wnode,       \* node (arena position, 0 is None)
    wdepth,      \* depth, the number of entries visited
    wseen,       \* the entries v[node.index] visited so far
    wpc,         \* "idle", "walking", "done", "IndexError"
    \* ---- MultiScaleDataset.get_square_image ----
    img_h,       \* image.shape[0]
    img_w,       \* image.shape[1]
    offset,      \* offset, in units of 1/OffsetDen ("unset" before the draw)
    crop_start,  \* top or left ("unset" when no crop is made)
    out_h,       \* shape[0] of the returned image
    out_w,       \* shape[1] of the returned image
    cpc,         \* "init", "returned"
    \* ---- DiffusionVocoderWithRefTruncatedTop.__init__ ----
    kwargs,             \* the arguments of __init__ (opt_net['kwargs'])
    npc,                \* "init", "down", "up", "built", "IndexError"
    level,              \* level, 0-based (-1 before the first loop)
    num_blocks,         \* num_blocks, which outlives the loops
    ch,                 \* ch
    ds,                 \* ds
    input_block_chans,  \* input_block_chans
    input_blocks,       \* self.input_blocks
    middle_block,       \* self.middle_block
    output_blocks,      \* self.output_blocks
    top_modules,        \* cheater_input_block and the top_* modules
    \* ---- DiffusionVocoderWithRefTruncatedTop.forward ----
    training,           \* self.training
    x_len,              \* x.shape[-1]
    conditioning_input, \* TRUE: a tensor is passed, FALSE: None
    fpc,                \* "init", "returned", "AssertionError", "RuntimeError", "IndexError"
    rand_start,         \* rand_start ("unset" until it is set)
    rand_stop,          \* rand_stop
    top_blocks,         \* top_blocks: the shapes [ch, len] kept by the top input blocks
    hs,                 \* hs: the shapes [ch, len] kept by the input blocks
    h,                  \* the shape [ch, len] of h, then of hb
    stages,             \* the number of modules evaluated
    fret                \* the value returned: <<shape, rand_start, rand_stop>>

tileVars == <<tdepth, nodes, leaves, tstack, tpc, tresult>>
patchVars == <<tile_size, num_scales, patches_hq, pstack, ppc>>
walkVars == <<wnode, wdepth, wseen, wpc>>
cropVars == <<img_h, img_w, offset, crop_start, out_h, out_w, cpc>>
initVars == <<kwargs, npc, level, num_blocks, ch, ds, input_block_chans,
              input_blocks, middle_block, output_blocks, top_modules>>
fwdVars == <<training, x_len, conditioning_input, fpc, rand_start, rand_stop,
             top_blocks, hs, h, stages, fret>>

None == 0

Pow(b, e) == IF e <= 0 THEN 1 ELSE LET p[i \in 0..e] == IF i = 0 THEN 1 ELSE b * p[i - 1] IN p[e]

Min(a, b) == IF a < b THEN a ELSE b

Max(a, b) == IF a < b THEN b ELSE a

(***************************************************************************)
(* MultiscaleTreeNode and build_multiscale_patch_index_map.                *)
(***************************************************************************)
\* MultiscaleTreeNode(index, parent): children starts empty
MultiscaleTreeNode(index, parent) ==
    [index |-> index, parent |-> parent, children |-> <<>>]

\* node.add_child(child) on the arena ns; child is the arena position
add_child(ns, node, child) ==
    [ns EXCEPT ![node].children = Append(@, child)]

\* subnodes = [node.add_child(MultiscaleTreeNode(ind+i, node)) for i in range(4)]
\* the four new nodes take the next four arena positions
MakeSubnodes(ns, ind, node) ==
    LET first == Len(ns) + 1
        mk[i \in 0..4] ==
            IF i = 0 THEN ns
            ELSE add_child(Append(mk[i - 1], MultiscaleTreeNode(ind + (i - 1), node)),
                           node, first + (i - 1))
    IN  [nodes |-> mk[4], subnodes |-> <<first, first + 1, first + 2, first + 3>>]

\* a recursion that ends one level later
LeafDepthLate == 1 - 1

\* the depth that ends the recursion in _build_multiscale_patch_index_map
LeafDepth == 1

\* The body of _build_multiscale_patch_index_map up to its first recursive
\* call: the four subnodes, ind += 4, and leaves.extend when depth == 1.
\* k is the position in "for n in subnodes" (5: the function returns).
BuildEnter(ns, lv, depth, ind, node) ==
    LET m == MakeSubnodes(ns, ind, node)
    IN  [nodes |-> m.nodes,
         leaves |-> IF depth = LeafDepth THEN lv \o m.subnodes ELSE lv,
         frame |-> [depth |-> depth, ind |-> ind + 4, subnodes |-> m.subnodes,
                    k |-> IF depth = LeafDepth THEN 5 ELSE 1]]

\* build_multiscale_patch_index_map(depth): returns None when depth < 0, else
\* makes the root and calls _build_multiscale_patch_index_map(depth-1, 1, root, leaves)
BuildIndexMap ==
    /\ tpc = "init"
    /\ ppc # "running" /\ wpc # "walking"
    /\ IF tdepth < 0
       THEN /\ tpc' = "returned"
            /\ tresult' = "None"
            /\ UNCHANGED <<nodes, leaves, tstack>>
       ELSE LET e == BuildEnter(<<MultiscaleTreeNode(0, None)>>, <<>>, tdepth - 1, 1, 1)
            IN  /\ nodes' = e.nodes
                /\ leaves' = e.leaves
                /\ tstack' = <<e.frame>>
                /\ tpc' = "running"
                /\ UNCHANGED tresult
    /\ UNCHANGED <<tdepth, patchVars, walkVars, cropVars, initVars, fwdVars>>

\* ind = _build_multiscale_patch_index_map(depth-1, ind, n, leaves): the call
BuildRecurse ==
    /\ tpc = "running"
    /\ LET top == tstack[Len(tstack)]
       IN  /\ top.k <= 4
           /\ Len(tstack) < RecursionLimit
           /\ LET e == BuildEnter(nodes, leaves, top.depth - 1, top.ind, top.subnodes[top.k])
              IN  /\ nodes' = e.nodes
                  /\ leaves' = e.leaves
                  /\ tstack' = Append(tstack, e.frame)
    /\ UNCHANGED <<tdepth, tpc, tresult, patchVars, walkVars, cropVars, initVars, fwdVars>>

\* the same call when the call stack is full: the interpreter raises
BuildOverflow ==
    /\ tpc = "running"
    /\ tstack[Len(tstack)].k <= 4
    /\ Len(tstack) >= RecursionLimit
    /\ tpc' = "RecursionError"
    /\ UNCHANGED <<tdepth, nodes, leaves, tstack, tresult, patchVars, walkVars, cropVars, initVars, fwdVars>>

\* return ind: the caller takes it as its ind and moves to its next subnode;
\* the outermost return gives leaves back to build_multiscale_patch_index_map
BuildReturn ==
    /\ tpc = "running"
    /\ LET n == Len(tstack)
           top == tstack[n]
       IN  /\ top.k = 5
           /\ IF n = 1
              THEN /\ tstack' = <<>>
                   /\ tpc' = "returned"
                   /\ tresult' = "leaves"
              ELSE /\ tstack' = [SubSeq(tstack, 1, n - 1) EXCEPT
                                    ![n - 1].ind = top.ind,
                                    ![n - 1].k = @ + 1]
                   /\ UNCHANGED <<tpc, tresult>>
    /\ UNCHANGED <<tdepth, nodes, leaves, patchVars, walkVars, cropVars, initVars, fwdVars>>

(***************************************************************************)
(* MultiScaleDataset: __getitem__ from the resize to hq_size_cap on, and   *)
(* recursively_extract_patches.  An image is the region of img_full it     *)
(* shows: [r, c] its top-left corner, h rows, w columns.                   *)
(***************************************************************************)
\* self.hq_size_cap = self.tile_size * 2 ** self.num_scales
hq_size_cap == tile_size * Pow(2, num_scales)

\* img[:n, ...] and img[n:, ...] on an axis of length len (numpy clips n to len)
SliceTo(len, n) == Min(n, len)

SliceFrom(len, n) == len - Min(n, len)

\* the four patches with the top-right and bottom-left ones exchanged
QuadrantsColumnMajor(img, ps) ==
    LET th == SliceTo(img.h, ps)
        lw == SliceTo(img.w, ps)
        bh == SliceFrom(img.h, ps)
        rw == SliceFrom(img.w, ps)
    IN  << [r |-> img.r,      c |-> img.c,      h |-> th, w |-> lw],
           [r |-> img.r + th, c |-> img.c,      h |-> bh, w |-> lw],
           [r |-> img.r,      c |-> img.c + lw, h |-> th, w |-> rw],
           [r |-> img.r + th, c |-> img.c + lw, h |-> bh, w |-> rw] >>

\* patches = [img[:ps, :ps], img[:ps, ps:], img[ps:, :ps], img[ps:, ps:]]
Quadrants(img, ps) ==
    LET th == SliceTo(img.h, ps)
        lw == SliceTo(img.w, ps)
        bh == SliceFrom(img.h, ps)
        rw == SliceFrom(img.w, ps)
    IN  << [r |-> img.r,      c |-> img.c,      h |-> th, w |-> lw],
           [r |-> img.r,      c |-> img.c + lw, h |-> th, w |-> rw],
           [r |-> img.r + th, c |-> img.c,      h |-> bh, w |-> lw],
           [r |-> img.r + th, c |-> img.c + lw, h |-> bh, w |-> rw] >>

\* cv2.resize(p, (self.tile_size, self.tile_size), interpolation=cv2.INTER_AREA):
\* a tile_size x tile_size picture of the region p
Resize(p) == [src |-> p, side |-> tile_size]

\* patch_size = self.hq_size_cap // (2 ** depth)
PatchSize(depth) == hq_size_cap \div Pow(2, depth)

\* recursively_extract_patches stopping at depth > num_scales
ExtractEnterLate(img, lst, depth) ==
    IF depth > num_scales
    THEN [returns |-> TRUE, list |-> lst, frame |-> <<>>]
    ELSE LET ps == Quadrants(img, PatchSize(depth))
         IN  [returns |-> FALSE,
              list |-> lst \o [i \in 1..4 |-> Resize(ps[i])],
              frame |-> [depth |-> depth, patches |-> ps, k |-> 1]]

\* The body of recursively_extract_patches(input_img, result_list, depth) up to
\* its first recursive call; "returns" says it returned at depth >= num_scales.
ExtractEnter(img, lst, depth) ==
    IF depth >= num_scales
    THEN [returns |-> TRUE, list |-> lst, frame |-> <<>>]
    ELSE LET ps == Quadrants(img, PatchSize(depth))
         IN  [returns |-> FALSE,
              list |-> lst \o [i \in 1..4 |-> Resize(ps[i])],
              frame |-> [depth |-> depth, patches |-> ps, k |-> 1]]

\* __getitem__ with patches_hq left empty before the extraction
GetItemUnseeded ==
    /\ ppc = "init"
    /\ tpc # "running" /\ wpc # "walking"
    /\ LET img_full == [r |-> 0, c |-> 0, h |-> hq_size_cap, w |-> hq_size_cap]
           e == ExtractEnter(img_full, <<>>, 1)
       IN  /\ patches_hq' = e.list
           /\ pstack' = IF e.returns THEN <<>> ELSE <<e.frame>>
           /\ ppc' = IF e.returns THEN "returned" ELSE "running"
    /\ UNCHANGED <<tile_size, num_scales, tileVars, walkVars, cropVars, initVars, fwdVars>>

\* __getitem__: img_full resized to hq_size_cap, patches_hq seeded with the
\* full image at tile_size, then recursively_extract_patches(img_full, patches_hq, 1)
GetItem ==
    /\ ppc = "init"
    /\ tpc # "running" /\ wpc # "walking"
    /\ LET img_full == [r |-> 0, c |-> 0, h |-> hq_size_cap, w |-> hq_size_cap]
           e == ExtractEnter(img_full, <<Resize(img_full)>>, 1)
       IN  /\ patches_hq' = e.list
           /\ pstack' = IF e.returns THEN <<>> ELSE <<e.frame>>
           /\ ppc' = IF e.returns THEN "returned" ELSE "running"
    /\ UNCHANGED <<tile_size, num_scales, tileVars, walkVars, cropVars, initVars, fwdVars>>

\* self.recursively_extract_patches(p, result_list, depth+1) for the next p
ExtractRecurse ==
    /\ ppc = "running"
    /\ LET n == Len(pstack)
           top == pstack[n]
       IN  /\ top.k <= 4
           /\ LET e == ExtractEnter(top.patches[top.k], patches_hq, top.depth + 1)
              IN  /\ patches_hq' = e.list
                  /\ pstack' = IF e.returns
                               THEN [pstack EXCEPT ![n].k = @ + 1]
                               ELSE Append(pstack, e.frame)
    /\ UNCHANGED <<tile_size, num_scales, ppc, tileVars, walkVars, cropVars, initVars, fwdVars>>

\* the end of "for p in patches": the call returns to its caller
ExtractReturn ==
    /\ ppc = "running"
    /\ LET n == Len(pstack)
       IN  /\ pstack[n].k = 5
           /\ IF n = 1
              THEN /\ pstack' = <<>>
                   /\ ppc' = "returned"
              ELSE /\ pstack' = [SubSeq(pstack, 1, n - 1) EXCEPT ![n - 1].k = @ + 1]
                   /\ UNCHANGED ppc
    /\ UNCHANGED <<tile_size, num_scales, patches_hq, tileVars, walkVars, cropVars, initVars, fwdVars>>

(***************************************************************************)
(* __main__: a leaf of the tree is walked to the root, reading the entry   *)
(* v[node.index] of the sample's 'HQ' list at every node.                  *)
(***************************************************************************)
\* node = multiscale_tree[tree_ind], depth = 0
WalkStart ==
    /\ wpc = "idle"
    /\ tpc = "returned" /\ tresult = "leaves"
    /\ ppc = "returned"
    /\ \E tree_ind \in 1..Len(leaves) :
          /\ wnode' = leaves[tree_ind]
          /\ wdepth' = 0
          /\ wseen' = <<>>
          /\ wpc' = "walking"
    /\ UNCHANGED <<tileVars, patchVars, cropVars, initVars, fwdVars>>

\* while node is not None: v[node.index]; depth += 1; node = node.parent
WalkStep ==
    /\ wpc = "walking"
    /\ IF wnode = None
       THEN /\ wpc' = "done"
            /\ UNCHANGED <<wnode, wdepth, wseen>>
       ELSE IF nodes[wnode].index + 1 > Len(patches_hq)
       THEN /\ wpc' = "IndexError"
            /\ UNCHANGED <<wnode, wdepth, wseen>>
       ELSE /\ wseen' = Append(wseen, patches_hq[nodes[wnode].index + 1])
            /\ wdepth' = wdepth + 1
            /\ wnode' = nodes[wnode].parent
            /\ UNCHANGED wpc
    /\ UNCHANGED <<tileVars, patchVars, cropVars, initVars, fwdVars>>

(***************************************************************************)
(* MultiScaleDataset.get_square_image.                                     *)
(***************************************************************************)
\* int(x) for x = num / den, den > 0: the fraction is dropped (towards zero)
IntOf(num, den) == IF num >= 0 THEN num \div den ELSE -((-num) \div den)

\* int(center + offset * (center - 2)), offset = off / OffsetDen
CropStart(center, off) == IntOf(center * OffsetDen + off * (center - 2), OffsetDen)

\* a slice bound i on an axis of length len: a negative bound counts from the
\* end, and the bound is clipped to 0..len
SliceBound(len, i) == IF i < 0 THEN Max(i + len, 0) ELSE Min(i, len)

\* the length of image[start:stop] on an axis of length len
SliceLen(len, start, stop) == Max(0, SliceBound(len, stop) - SliceBound(len, start))

\* get_square_image(image): the image itself when h == w, else the longer axis
\* cut to [start : start + shorter side], start drawn around the centre
get_square_image ==
    /\ cpc = "init"
    /\ IF img_h = img_w
       THEN /\ out_h' = img_h
            /\ out_w' = img_w
            /\ UNCHANGED <<offset, crop_start>>
       ELSE \E off \in (-OffsetDen)..OffsetDen :
              /\ offset' = off
              /\ IF img_h > img_w
                 THEN LET diff == img_h - img_w
                          center == diff \div 2
                          top == CropStart(center, off)
                      IN  /\ crop_start' = top
                          /\ out_h' = SliceLen(img_h, top, top + img_w)
                          /\ out_w' = img_w
                 ELSE LET diff == img_w - img_h
                          center == diff \div 2
                          left == CropStart(center, off)
                      IN  /\ crop_start' = left
                          /\ out_h' = img_h
                          /\ out_w' = SliceLen(img_w, left, left + img_h)
    /\ cpc' = "returned"
    /\ UNCHANGED <<img_h, img_w, tileVars, patchVars, walkVars, initVars, fwdVars>>

(***************************************************************************)
(* DiffusionVocoderWithRefTruncatedTop.__init__: the modules it builds.    *)
(* A layer is what it does to a tensor's channels and length.              *)
(***************************************************************************)
\* conv_nd(dims, cin, cout, kernel_size, padding=padding[, stride=stride])
conv_nd(cin, cout, stride) ==
    [type |-> "conv_nd", cin |-> cin, cout |-> cout,
     scale |-> IF stride = 2 THEN "stride2" ELSE "same"]

\* ResBlock(channels, ..., out_channels=cout[, down=True | up=True]);
\* out_channels defaults to channels
ResBlock(cin, cout, scale) ==
    [type |-> "ResBlock", cin |-> cin, cout |-> cout, scale |-> scale]

\* AttentionBlock(channels, ...)
AttentionBlock(channels) ==
    [type |-> "AttentionBlock", cin |-> channels, cout |-> channels, scale |-> "same"]

\* Downsample(channels, conv_resample, out_channels=out_ch, factor=scale_factor)
Downsample(channels, out_ch) ==
    [type |-> "Downsample", cin |-> channels, cout |-> out_ch, scale |-> "down"]

\* Upsample(channels, conv_resample, out_channels=out_ch, factor=scale_factor)
Upsample(channels, out_ch) ==
    [type |-> "Upsample", cin |-> channels, cout |-> out_ch, scale |-> "up"]

\* normalization(channels), nn.SiLU(), zero_module(conv_nd(channels, out_channels))
OutFinal(channels, out_ch) ==
    [type |-> "normalization+conv_nd", cin |-> channels, cout |-> out_ch, scale |-> "same"]

\* TimestepEmbedSequential(*layers) and nn.Sequential(*layers)
TimestepEmbedSequential(layers) ==
    [kind |-> "TimestepEmbedSequential", layers |-> layers]

\* DiscreteSpectrogramConditioningBlock(dvae_channels, channels)
DiscreteSpectrogramConditioningBlock(channels) ==
    [kind |-> "DiscreteSpectrogramConditioningBlock", channels |-> channels]

\* int(mult * model_channels) with rounding to the nearest integer above
IntMultUp(mult) == (mult * kwargs.model_channels + MultDen - 1) \div MultDen

\* int(mult * model_channels), mult = m / MultDen
IntMult(mult) == IntOf(mult * kwargs.model_channels, MultDen)

\* zip(channel_mult, num_res_blocks) stops at the shorter of the two
ZipLen == Min(Len(kwargs.channel_mult), Len(kwargs.num_res_blocks))

\* __init__ up to the down-path loop: time_embed, contextual_embedder,
\* cheater_input_block, input_blocks = [conv], input_block_chans = [model_channels]
Construct ==
    /\ npc = "init"
    /\ npc' = "down"
    /\ level' = -1
    /\ num_blocks' = "unset"
    /\ ch' = kwargs.model_channels
    /\ ds' = 1
    /\ input_block_chans' = <<kwargs.model_channels>>
    /\ input_blocks' = <<TimestepEmbedSequential(
                            <<conv_nd(kwargs.model_channels \div 2, kwargs.model_channels, 1)>>)>>
    /\ top_modules' = [cheater_input_block |->
                  TimestepEmbedSequential(
                      <<conv_nd(kwargs.in_channels, kwargs.model_channels \div 2, 2)>>)]
    /\ UNCHANGED <<kwargs, middle_block, output_blocks>>
    /\ UNCHANGED <<tileVars, patchVars, walkVars, cropVars, fwdVars>>

\* the level the down-path loop takes next (0-based)
NextDownLevel == level + 1

\* "for _ in range(num_blocks)" of the down path, from the state st on:
\* a ResBlock, an AttentionBlock at an attention resolution, one entry pushed
DownResBlocks(st, mult, n) ==
    LET r[j \in 0..n] ==
            IF j = 0 THEN st
            ELSE LET p == r[j - 1]
                     c == IntMult(mult)
                     layers == <<ResBlock(p.ch, c, "same")>> \o
                               (IF p.ds \in kwargs.attention_resolutions
                                THEN <<AttentionBlock(c)>> ELSE <<>>)
                 IN  [p EXCEPT !.ch = c,
                               !.blocks = Append(@, TimestepEmbedSequential(layers)),
                               !.chans = Append(@, c)]
    IN  r[n]

\* a down path that pushes no entry for the downsampling block
DownLevelNoPush(st, lvl) ==
    LET mult == kwargs.channel_mult[lvl + 1]
        nb == kwargs.num_res_blocks[lvl + 1]
        c0 == IF st.ds \in kwargs.spectrogram_conditioning_resolutions
              THEN [st EXCEPT !.blocks = Append(@, DiscreteSpectrogramConditioningBlock(st.ch)),
                              !.ch = 2 * @]
              ELSE st
        c1 == DownResBlocks(c0, mult, nb)
    IN  IF lvl # Len(kwargs.channel_mult) - 1
        THEN [c1 EXCEPT !.blocks = Append(@, TimestepEmbedSequential(
                                        <<IF kwargs.resblock_updown
                                          THEN ResBlock(c1.ch, c1.ch, "down")
                                          ELSE Downsample(c1.ch, c1.ch)>>)),
                        !.ds = 2 * @]
        ELSE c1

\* one pass of the down-path loop (level lvl, 0-based) from the state st on:
\* the conditioning block at a conditioning resolution (ch doubles), the
\* residual blocks, and below the last level of channel_mult the
\* downsampling block (one more entry pushed, ds doubles)
DownLevelBody(st, lvl) ==
    LET mult == kwargs.channel_mult[lvl + 1]
        nb == kwargs.num_res_blocks[lvl + 1]
        c0 == IF st.ds \in kwargs.spectrogram_conditioning_resolutions
              THEN [st EXCEPT !.blocks = Append(@, DiscreteSpectrogramConditioningBlock(st.ch)),
                              !.ch = 2 * @]
              ELSE st
        c1 == DownResBlocks(c0, mult, nb)
    IN  IF lvl # Len(kwargs.channel_mult) - 1
        THEN [c1 EXCEPT !.blocks = Append(@, TimestepEmbedSequential(
                                        <<IF kwargs.resblock_updown
                                          THEN ResBlock(c1.ch, c1.ch, "down")
                                          ELSE Downsample(c1.ch, c1.ch)>>)),
                        !.chans = Append(@, c1.ch),
                        !.ds = 2 * @]
        ELSE c1

\* for level, (mult, num_blocks) in enumerate(zip(channel_mult, num_res_blocks))
DownLevel ==
    /\ npc = "down"
    /\ NextDownLevel < ZipLen
    /\ LET st == DownLevelBody([ch |-> ch, ds |-> ds, chans |-> input_block_chans,
                                blocks |-> input_blocks], NextDownLevel)
       IN  /\ ch' = st.ch
           /\ ds' = st.ds
           /\ input_block_chans' = st.chans
           /\ input_blocks' = st.blocks
    /\ level' = NextDownLevel
    /\ num_blocks' = kwargs.num_res_blocks[NextDownLevel + 1]
    /\ UNCHANGED <<kwargs, npc, middle_block, output_blocks, top_modules>>
    /\ UNCHANGED <<tileVars, patchVars, walkVars, cropVars, fwdVars>>

\* self.middle_block, after the last pass of the down-path loop
MiddleBlock ==
    /\ npc = "down"
    /\ NextDownLevel >= ZipLen
    /\ middle_block' = TimestepEmbedSequential(
                           <<ResBlock(ch, ch, "same"), AttentionBlock(ch), ResBlock(ch, ch, "same")>>)
    /\ output_blocks' = <<>>
    /\ npc' = "up"
    /\ level' = ZipLen
    /\ UNCHANGED <<kwargs, num_blocks, ch, ds, input_block_chans, input_blocks, top_modules>>
    /\ UNCHANGED <<tileVars, patchVars, walkVars, cropVars, fwdVars>>

\* one pass of the up-path loop (level lvl, 0-based) from the state st on:
\* num_blocks + 1 times an entry is popped and a ResBlock(ch + ich -> mult)
\* built, with the upsampling layer in the last one above level 0
UpLevelBody(st, lvl) ==
    LET mult == kwargs.channel_mult[lvl + 1]
        nb == kwargs.num_res_blocks[lvl + 1]
        u[i \in 0..(nb + 1)] ==
            IF i = 0 THEN st
            ELSE LET p == u[i - 1]
                 IN  IF p.err THEN p
                     ELSE IF p.chans = <<>> THEN [p EXCEPT !.err = TRUE]
                     ELSE LET ich == p.chans[Len(p.chans)]
                              c == IntMult(mult)
                              last == lvl # 0 /\ (i - 1) = nb
                              layers == <<ResBlock(p.ch + ich, c, "same")>> \o
                                        (IF p.ds \in kwargs.attention_resolutions
                                         THEN <<AttentionBlock(c)>> ELSE <<>>) \o
                                        (IF last
                                         THEN <<IF kwargs.resblock_updown
                                                THEN ResBlock(c, c, "up")
                                                ELSE Upsample(c, c)>>
                                         ELSE <<>>)
                          IN  [p EXCEPT !.chans = SubSeq(@, 1, Len(@) - 1),
                                        !.ch = c,
                                        !.ds = IF last THEN @ \div 2 ELSE @,
                                        !.blocks = Append(@, TimestepEmbedSequential(layers))]
    IN  u[nb + 1]

\* for level, (mult, num_blocks) in list(enumerate(zip(...)))[::-1];
\* input_block_chans.pop() on an empty list raises IndexError
UpLevel ==
    /\ npc = "up"
    /\ level > 0
    /\ LET st == UpLevelBody([ch |-> ch, ds |-> ds, chans |-> input_block_chans,
                              blocks |-> output_blocks, err |-> FALSE], level - 1)
       IN  /\ ch' = st.ch
           /\ ds' = st.ds
           /\ input_block_chans' = st.chans
           /\ output_blocks' = st.blocks
           /\ npc' = IF st.err THEN "IndexError" ELSE "up"
    /\ level' = level - 1
    /\ num_blocks' = kwargs.num_res_blocks[level]
    /\ UNCHANGED <<kwargs, input_blocks, middle_block, top_modules>>
    /\ UNCHANGED <<tileVars, patchVars, walkVars, cropVars, fwdVars>>

\* top_inp_raw, top_inp_blocks, top_out_upsample, top_out_blocks and
\* top_out_final, after the last pass of the up-path loop; __init__ returns
TopBlocks ==
    /\ npc = "up"
    /\ level = 0
    /\ LET mc == kwargs.model_channels
       IN  top_modules' = [cheater_input_block |-> top_modules.cheater_input_block,
                   top_inp_raw |-> TimestepEmbedSequential(<<conv_nd(kwargs.in_channels, mc, 1)>>),
                   top_inp_blocks |-> [j \in 1..num_blocks |->
                                          TimestepEmbedSequential(<<ResBlock(mc, mc, "same")>>)],
                   top_out_upsample |-> TimestepEmbedSequential(
                                            <<IF kwargs.resblock_updown
                                              THEN ResBlock(mc, mc, "up")
                                              ELSE Upsample(ch, mc)>>),
                   top_out_blocks |-> [j \in 1..num_blocks |->
                                          TimestepEmbedSequential(<<ResBlock(2 * mc, mc, "same")>>)],
                   top_out_final |-> TimestepEmbedSequential(<<OutFinal(mc, kwargs.out_channels)>>)]
    /\ npc' = "built"
    /\ UNCHANGED <<kwargs, level, num_blocks, ch, ds, input_block_chans, input_blocks,
                   middle_block, output_blocks>>
    /\ UNCHANGED <<tileVars, patchVars, walkVars, cropVars, fwdVars>>

(***************************************************************************)
(* DiffusionVocoderWithRefTruncatedTop.forward.  A tensor is its shape:    *)
(* [ch, len] are its channels and its length (the last dimension).         *)
(***************************************************************************)
\* assert x.shape[-1] % 4096 == 0
LengthUnit == 4096

\* kernel_size=3, the default
kernel_size == 3

\* padding = 1 if kernel_size == 3 else 2
padding == IF kernel_size = 3 THEN 1 ELSE 2

\* the length a conv_nd(..., kernel_size, padding=padding, stride=stride) gives
ConvLen(len, stride) == (len + 2 * padding - kernel_size) \div stride + 1

\* the length after a downsampling, an upsampling or any other layer of
\* models.diffusion.unet_diffusion: halved, doubled (scale_factor=2), kept
ResampleLen(len, scale) ==
    IF scale = "down" THEN len \div 2
    ELSE IF scale = "up" THEN 2 * len
    ELSE len

\* layer(t): the layer takes cin channels and gives cout; another channel
\* count is a RuntimeError (ok = FALSE)
RunLayer(layer, t) ==
    IF t.ch # layer.cin THEN [ok |-> FALSE, t |-> t]
    ELSE [ok |-> TRUE,
          t |-> [ch |-> layer.cout,
                 len |-> IF layer.type = "conv_nd"
                         THEN ConvLen(t.len, IF layer.scale = "stride2" THEN 2 ELSE 1)
                         ELSE ResampleLen(t.len, layer.scale)]]

\* module(t, emb): a DiscreteSpectrogramConditioningBlock concatenates its
\* channels embedded codes onto t; a TimestepEmbedSequential runs its layers
RunModule(module, t) ==
    IF module.kind = "DiscreteSpectrogramConditioningBlock"
    THEN [ok |-> TRUE, t |-> [ch |-> t.ch + module.channels, len |-> t.len]]
    ELSE LET run[j \in 0..Len(module.layers)] ==
                 IF j = 0 THEN [ok |-> TRUE, t |-> t]
                 ELSE LET p == run[j - 1]
                      IN  IF p.ok THEN RunLayer(module.layers[j], p.t) ELSE p
         IN  run[Len(module.layers)]

\* f with module applied to its tensor f.h; nothing once f has failed
Apply(f, module) ==
    IF f.status # "ok" THEN f
    ELSE LET o == RunModule(module, f.h)
         IN  IF o.ok THEN [f EXCEPT !.h = o.t, !.stages = @ + 1]
             ELSE [f EXCEPT !.status = "RuntimeError"]

\* torch.cat([a, b], dim=1): the channels add up, the lengths must agree
Cat(f, b) ==
    IF f.status # "ok" THEN f
    ELSE IF f.h.len # b.len THEN [f EXCEPT !.status = "RuntimeError"]
    ELSE [f EXCEPT !.h = [ch |-> f.h.ch + b.ch, len |-> f.h.len]]

\* ht = self.top_inp_raw(x[:, :, rand_start:rand_stop], emb), then every
\* block of top_inp_blocks, each output appended to top_blocks
TopInput(f, rs, re) ==
    LET f0 == Apply([f EXCEPT !.h = [ch |-> kwargs.in_channels,
                                     len |-> SliceLen(x_len, rs, re)]],
                    top_modules.top_inp_raw)
        n == Len(top_modules.top_inp_blocks)
        run[j \in 0..n] ==
            IF j = 0 THEN f0
            ELSE LET g == Apply(run[j - 1], top_modules.top_inp_blocks[j])
                 IN  IF g.status = "ok" THEN [g EXCEPT !.top_blocks = Append(@, g.h)] ELSE g
    IN  run[n]

\* an input-block loop that also keeps the output of the conditioning blocks
InputPathKeepAll(f) ==
    LET f0 == Apply([f EXCEPT !.h = [ch |-> kwargs.in_channels, len |-> x_len]],
                    top_modules.cheater_input_block)
        n == Len(input_blocks)
        run[k \in 0..n] ==
            IF k = 0 THEN f0
            ELSE LET g == Apply(run[k - 1], input_blocks[k])
                 IN  IF g.status = "ok" THEN [g EXCEPT !.hs = Append(@, g.h)] ELSE g
    IN  run[n]

\* h = self.cheater_input_block(x, emb), then every module of input_blocks;
\* the output of every module but the conditioning blocks is appended to hs
InputPath(f) ==
    LET f0 == Apply([f EXCEPT !.h = [ch |-> kwargs.in_channels, len |-> x_len]],
                    top_modules.cheater_input_block)
        n == Len(input_blocks)
        run[k \in 0..n] ==
            IF k = 0 THEN f0
            ELSE LET g == Apply(run[k - 1], input_blocks[k])
                 IN  IF g.status = "ok" /\ input_blocks[k].kind # "DiscreteSpectrogramConditioningBlock"
                     THEN [g EXCEPT !.hs = Append(@, g.h)]
                     ELSE g
    IN  run[n]

\* h = torch.cat([h, hs.pop()], dim=1); h = module(h, emb) for every module
\* of output_blocks; hs.pop() on an empty list raises IndexError
OutputPath(f) ==
    LET n == Len(output_blocks)
        run[k \in 0..n] ==
            IF k = 0 THEN f
            ELSE LET p == run[k - 1]
                 IN  IF p.status # "ok" THEN p
                     ELSE IF p.hs = <<>> THEN [p EXCEPT !.status = "IndexError"]
                     ELSE Apply(Cat([p EXCEPT !.hs = SubSeq(@, 1, Len(@) - 1)],
                                    p.hs[Len(p.hs)]),
                                output_blocks[k])
    IN  run[n]

\* the top output blocks with h sliced at rand_start:rand_stop, not halved
TopOutputFullSlice(f, rs, re) ==
    LET f0 == IF f.status # "ok" THEN f
              ELSE Apply([f EXCEPT !.h.len = SliceLen(@, rs, re)],
                         top_modules.top_out_upsample)
        n == Len(top_modules.top_out_blocks)
        run[j \in 0..n] ==
            IF j = 0 THEN f0
            ELSE LET p == run[j - 1]
                 IN  IF p.status # "ok" THEN p
                     ELSE IF p.top_blocks = <<>> THEN [p EXCEPT !.status = "IndexError"]
                     ELSE Apply(Cat([p EXCEPT !.top_blocks = SubSeq(@, 1, Len(@) - 1)],
                                    p.top_blocks[Len(p.top_blocks)]),
                                top_modules.top_out_blocks[j])
    IN  Apply(run[n], top_modules.top_out_final)

\* hb = h[:, :, rand_start//2:rand_stop//2]; hb = self.top_out_upsample(hb, emb);
\* every block of top_out_blocks after a cat with top_blocks.pop(); top_out_final
TopOutput(f, rs, re) ==
    LET f0 == IF f.status # "ok" THEN f
              ELSE Apply([f EXCEPT !.h.len = SliceLen(@, rs \div 2, re \div 2)],
                         top_modules.top_out_upsample)
        n == Len(top_modules.top_out_blocks)
        run[j \in 0..n] ==
            IF j = 0 THEN f0
            ELSE LET p == run[j - 1]
                 IN  IF p.status # "ok" THEN p
                     ELSE IF p.top_blocks = <<>> THEN [p EXCEPT !.status = "IndexError"]
                     ELSE Apply(Cat([p EXCEPT !.top_blocks = SubSeq(@, 1, Len(@) - 1)],
                                    p.top_blocks[Len(p.top_blocks)]),
                                top_modules.top_out_blocks[j])
    IN  Apply(run[n], top_modules.top_out_final)

\* forward from the draw of the bounds on: emb (time_embed and, when
\* conditioning is enabled, contextual_embedder), the top input blocks, the
\* unet, the top output blocks
ForwardRun(rs, re) ==
    LET start == [status |-> "ok", h |-> "unset", hs |-> <<>>, top_blocks |-> <<>>,
                  stages |-> IF kwargs.conditioning_inputs_provided THEN 2 ELSE 1]
        t1 == TopInput(start, rs, re)
        t2 == InputPath(t1)
        t3 == Apply(t2, middle_block)
        t4 == OutputPath(t3)
    IN  TopOutput(t4, rs, re)

\* the draw itself, not rounded
EvenStartRaw(r) == r

\* rand_start = (random.randint(0, x.shape[-1] // 2) // 2) * 2 for the draw r
EvenStart(r) == (r \div 2) * 2

\* forward with the length check of the asserts left out
ForwardAssertsNoLength ==
    kwargs.conditioning_inputs_provided => conditioning_input

\* the asserts at the entry of forward
ForwardAsserts ==
    /\ x_len % LengthUnit = 0
    /\ kwargs.conditioning_inputs_provided => conditioning_input

\* forward(x, timesteps, spectrogram, conditioning_input) when an assert fails
ForwardAssertionError ==
    /\ npc = "built"
    /\ fpc = "init"
    /\ ~ForwardAsserts
    /\ fpc' = "AssertionError"
    /\ UNCHANGED <<training, x_len, conditioning_input, rand_start, rand_stop,
                   top_blocks, hs, h, stages, fret>>
    /\ UNCHANGED <<tileVars, patchVars, walkVars, cropVars, initVars>>

\* forward(x, timesteps, spectrogram, conditioning_input) past its asserts:
\* the bounds are drawn in training mode and span x in evaluation mode
Forward ==
    /\ npc = "built"
    /\ fpc = "init"
    /\ ForwardAsserts
    /\ \E r \in IF training THEN 0..(x_len \div 2) ELSE {0} :
          LET rs == IF training THEN EvenStart(r) ELSE 0
              re == IF training THEN rs + x_len \div 2 ELSE x_len
              f == ForwardRun(rs, re)
          IN  /\ rand_start' = rs
              /\ rand_stop' = re
              /\ top_blocks' = f.top_blocks
              /\ hs' = f.hs
              /\ h' = f.h
              /\ stages' = f.stages
              /\ fpc' = IF f.status = "ok" THEN "returned" ELSE f.status
              /\ fret' = IF f.status = "ok" THEN <<f.h, rs, re>> ELSE "unset"
    /\ UNCHANGED <<training, x_len, conditioning_input>>
    /\ UNCHANGED <<tileVars, patchVars, walkVars, cropVars, initVars>>

(***************************************************************************)
(* Specifications.                                                         *)
(***************************************************************************)
vars == <<tileVars, patchVars, walkVars, cropVars, initVars, fwdVars>>

\* no tree is being built, no sample fetched
TilesIdle ==
    /\ tdepth = 0
    /\ nodes = <<>>
    /\ leaves = <<>>
    /\ tstack = <<>>
    /\ tpc = "idle"
    /\ tresult = "unset"
    /\ tile_size = 1
    /\ num_scales = 0
    /\ patches_hq = <<>>
    /\ pstack = <<>>
    /\ ppc = "idle"
    /\ wnode = None
    /\ wdepth = 0
    /\ wseen = <<>>
    /\ wpc = "idle"

\* no image is being cropped
CropIdle ==
    /\ img_h = 0
    /\ img_w = 0
    /\ offset = "unset"
    /\ crop_start = "unset"
    /\ out_h = "unset"
    /\ out_w = "unset"
    /\ cpc = "idle"

\* no network is being built
NetIdle ==
    /\ kwargs = "unset"
    /\ npc = "idle"
    /\ level = -1
    /\ num_blocks = "unset"
    /\ ch = 0
    /\ ds = 0
    /\ input_block_chans = <<>>
    /\ input_blocks = <<>>
    /\ middle_block = "unset"
    /\ output_blocks = <<>>
    /\ top_modules = "unset"
    /\ training = FALSE
    /\ x_len = 0
    /\ conditioning_input = FALSE
    /\ fpc = "idle"
    /\ rand_start = "unset"
    /\ rand_stop = "unset"
    /\ top_blocks = <<>>
    /\ hs = <<>>
    /\ h = "unset"
    /\ stages = 0
    /\ fret = "unset"

InitTiles ==
    /\ tdepth \in -1..MaxDepth
    /\ nodes = <<>>
    /\ leaves = <<>>
    /\ tstack = <<>>
    /\ tpc = "init"
    /\ tresult = "unset"
    /\ tile_size \in 1..MaxTile
    /\ num_scales \in 0..MaxScales
    /\ patches_hq = <<>>
    /\ pstack = <<>>
    /\ ppc = "init"
    /\ wnode = None
    /\ wdepth = 0
    /\ wseen = <<>>
    /\ wpc = "idle"
    /\ CropIdle
    /\ NetIdle

NextTiles ==
    \/ BuildIndexMap
    \/ BuildRecurse
    \/ BuildOverflow
    \/ BuildReturn
    \/ GetItem
    \/ ExtractRecurse
    \/ ExtractReturn
    \/ WalkStart
    \/ WalkStep

\* the tile tree, the patch pyramid and the walk of __main__
SpecTiles == InitTiles /\ [][NextTiles]_vars

InitCrop ==
    /\ img_h \in 1..MaxSide
    /\ img_w \in 1..MaxSide
    /\ offset = "unset"
    /\ crop_start = "unset"
    /\ out_h = "unset"
    /\ out_w = "unset"
    /\ cpc = "init"
    /\ TilesIdle
    /\ NetIdle

NextCrop == get_square_image

\* get_square_image on every image shape and offset
SpecCrop == InitCrop /\ [][NextCrop]_vars

\* the multipliers 1, 1 + 1/MultDen and 2
Mults == {MultDen, MultDen + 1, 2 * MultDen}

\* the entries of num_res_blocks
BlockCounts == {0, 1, 2}

\* the values of model_channels
ModelChannels == {3, 32}

SeqsUpTo(S, n) == UNION {[1..k -> S] : k \in 1..n}

\* the arguments of __init__ the model builds networks from; discrete_codes,
\* dropout, dims, the heads and kernel_size (3) keep their defaults
AllKwargs ==
    [model_channels : ModelChannels,
     in_channels : {1},
     out_channels : {2},
     channel_mult : SeqsUpTo(Mults, MaxLevels),
     num_res_blocks : SeqsUpTo(BlockCounts, MaxLevels),
     spectrogram_conditioning_resolutions : {{}, {2}, {1, 2}},
     attention_resolutions : {{}, {2}},
     resblock_updown : BOOLEAN,
     conditioning_inputs_provided : {TRUE}]

\* a network that __init__ has not run on, for the arguments kw
Unbuilt(kw) ==
    /\ kwargs \in kw
    /\ npc = "init"
    /\ level = -1
    /\ num_blocks = "unset"
    /\ ch = 0
    /\ ds = 0
    /\ input_block_chans = <<>>
    /\ input_blocks = <<>>
    /\ middle_block = "unset"
    /\ output_blocks = <<>>
    /\ top_modules = "unset"
    /\ fpc = "init"
    /\ rand_start = "unset"
    /\ rand_stop = "unset"
    /\ top_blocks = <<>>
    /\ hs = <<>>
    /\ h = "unset"
    /\ stages = 0
    /\ fret = "unset"

\* every argument list, and one call of forward in evaluation mode on an
\* input of LengthUnit samples with its conditioning input
InitNet ==
    /\ Unbuilt(AllKwargs)
    /\ training = FALSE
    /\ x_len = LengthUnit
    /\ conditioning_input = TRUE
    /\ TilesIdle
    /\ CropIdle

NextNet ==
    \/ Construct
    \/ DownLevel
    \/ MiddleBlock
    \/ UpLevel
    \/ TopBlocks
    \/ Forward

\* the construction of the network for every argument list, and forward
SpecNet == InitNet /\ [][NextNet]_vars

NextForward ==
    \/ NextNet
    \/ ForwardAssertionError

\* the argument lists forward is run on in both modes
ForwardKwargs ==
    {kw \in [model_channels : {32},
             in_channels : {1},
             out_channels : {2},
             channel_mult : {<<MultDen>>, <<MultDen, 2 * MultDen>>},
             num_res_blocks : {<<1>>, <<2, 1>>},
             spectrogram_conditioning_resolutions : {{1}},
             attention_resolutions : {{2}},
             resblock_updown : BOOLEAN,
             conditioning_inputs_provided : BOOLEAN] :
        Len(kw.channel_mult) = Len(kw.num_res_blocks)}

\* the lengths of x: the multiples of LengthUnit and lengths in between
XLengths ==
    {k * LengthUnit + d : k \in 0..MaxUnits, d \in {0, 1, LengthUnit \div 2}}

\* a few networks, and one call of forward in either mode on every input
InitForward ==
    /\ Unbuilt(ForwardKwargs)
    /\ training \in BOOLEAN
    /\ x_len \in XLengths
    /\ conditioning_input \in BOOLEAN
    /\ TilesIdle
    /\ CropIdle

\* forward in training and in evaluation mode
SpecForward == InitForward /\ [][NextForward]_vars

(***************************************************************************)
(* Properties of the tile tree and of the patch pyramid.                   *)
(***************************************************************************)
\* the number of parent links from node n to the root
RECURSIVE ChainLen(_)
ChainLen(n) == IF nodes[n].parent = None THEN 0 ELSE 1 + ChainLen(nodes[n].parent)

\* the node the parent links from n end at
RECURSIVE ChainEnd(_)
ChainEnd(n) == IF nodes[n].parent = None THEN n ELSE ChainEnd(nodes[n].parent)

BuildReturned == tpc = "returned" /\ tresult = "leaves"

LeafSet == {leaves[i] : i \in 1..Len(leaves)}

QuadrantOf(reg, q) ==
    [r |-> reg.r + ((q - 1) \div 2) * (reg.h \div 2),
     c |-> reg.c + ((q - 1) % 2) * (reg.w \div 2),
     h |-> reg.h \div 2,
     w |-> reg.w \div 2]

\* the position of node n in its parent's list of children
ChildPos(n) ==
    LET sibs == nodes[nodes[n].parent].children
    IN  CHOOSE q \in 1..Len(sibs) : sibs[q] = n

\* the region the quadrant path from the root to node n leads to
RECURSIVE NodeRegion(_)
NodeRegion(n) ==
    IF nodes[n].parent = None
    THEN [r |-> 0, c |-> 0, h |-> hq_size_cap, w |-> hq_size_cap]
    ELSE QuadrantOf(NodeRegion(nodes[n].parent), ChildPos(n))

Inside(a, b) ==
    /\ b.r <= a.r /\ a.r + a.h <= b.r + b.h
    /\ b.c <= a.c /\ a.c + a.w <= b.c + b.w

C6_Length5And21 ==
    ppc = "returned" =>
        /\ num_scales = 1 => Len(patches_hq) = 5
        /\ num_scales = 2 => Len(patches_hq) = 21

\* C6 amended: on the hq_size_cap square (side tile_size * 2^num_scales) the
\* pyramid has 1 entry for num_scales = 1 (the full image alone, no
\* recursion) and 5 entries for num_scales = 2.
C6_Length1And5 ==
    ppc = "returned" =>
        /\ num_scales = 1 => Len(patches_hq) = 1
        /\ num_scales = 2 => Len(patches_hq) = 5

C6_Witness ==
    /\ ppc = "returned" /\ num_scales = 2 /\ Len(patches_hq) = 5
    /\ patches_hq[1].src.h = 4 * tile_size /\ patches_hq[2].src.h = 2 * tile_size

\* C8 as stated: for depth <= 0 the build ends without raising; depth = 0
\* makes the root alone, no children and no leaves; depth < 0 returns None.
C8_NonPositiveDepthGraceful ==
    tdepth <= 0 =>
        /\ tpc # "RecursionError"
        /\ (tdepth = 0 /\ tpc # "init") => (Len(nodes) = 1 /\ leaves = <<>>)
        /\ (tdepth < 0 /\ tpc = "returned") => tresult = "None"

(***************************************************************************)
(* Properties of get_square_image.                                         *)
(***************************************************************************)
\* C3 as stated: for h != w and every offset in [-1, 1] the returned image is
\* square with side min(h, w), the crop start is not negative and the crop
\* ends inside the longer side.
C3_SquareCrop ==
    (cpc = "returned" /\ img_h # img_w) =>
        /\ out_h = Min(img_h, img_w)
        /\ out_w = Min(img_h, img_w)
        /\ crop_start >= 0
        /\ crop_start + Min(img_h, img_w) <= Max(img_h, img_w)

(***************************************************************************)
(* Properties of the construction of the network.                          *)
(***************************************************************************)
EqualLengths == Len(kwargs.channel_mult) = Len(kwargs.num_res_blocks)

\* the up-path loop has ended (without an exception)
UpPathDone == npc = "built" \/ (npc = "up" /\ level = 0)

\* forward has run past its asserts
ForwardRan == fpc \in {"returned", "RuntimeError", "IndexError"}

\* C4: for channel_mult and num_res_blocks of equal length and any resolution
\* sets, input_block_chans is never popped while empty (no IndexError), it is
\* empty once the up-path loop has ended, and at forward time hs is never
\* popped while empty and is empty after the last output block.
C4_SkipStackBalanced ==
    EqualLengths =>
        /\ npc # "IndexError"
        /\ UpPathDone => input_block_chans = <<>>
        /\ fpc # "IndexError"
        /\ ForwardRan => hs = <<>>

C4_Witness ==
    /\ kwargs.channel_mult = <<MultDen, 2 * MultDen>>
    /\ kwargs.num_res_blocks = <<2, 1>>
    /\ kwargs.spectrogram_conditioning_resolutions = {1, 2}
    /\ npc = "built" /\ input_block_chans = <<>>
    /\ Len(input_blocks) = 7 /\ Len(output_blocks) = 5
    /\ fpc = "returned" /\ hs = <<>> /\ stages > 12

\* C7 as stated: construction never completes with a skip stack that is not
\* empty; it fails instead.
C7_ImbalanceFailsFast ==
    npc = "built" => input_block_chans = <<>>

\* floor(m * model_channels / MultDen): int() of the multiplier m / MultDen
\* times the base
Expected(m) == (m * kwargs.model_channels) \div MultDen

C9_Example ==
    /\ kwargs.channel_mult = <<MultDen, 2 * MultDen>>
    /\ kwargs.num_res_blocks = <<1, 1>>
    /\ kwargs.model_channels = 32

\* the example of C9: channel_mult=(1,2), num_res_blocks=(1,1), base=32 gives
\* the down-path channel sequence [32, 64], ch = 32 and an empty stack at the end
C9_ExampleHolds ==
    C9_Example =>
        /\ (npc = "down" /\ level = 0) => ch = 32
        /\ (npc = "down" /\ level = 1) => ch = 64
        /\ UpPathDone => (ch = 32 /\ input_block_chans = <<>>)

\* C9 as stated: after the pass of the down-path loop for level L the running
\* channel count is int(channel_mult[L] * base), for every level.
C9_EveryLevel ==
    /\ (npc = "down" /\ level >= 0) => ch = Expected(kwargs.channel_mult[level + 1])
    /\ UpPathDone => ch = Expected(kwargs.channel_mult[1])
    /\ C9_ExampleHolds

\* C9 amended: after the residual stages of a level L that has at least one
\* residual block (num_res_blocks[L] >= 1) the running channel count is
\* int(channel_mult[L] * base); after the up-path it is
\* int(channel_mult[0] * base); and the example holds.
C9_LevelsWithBlocks ==
    /\ (npc = "down" /\ level >= 0 /\ kwargs.num_res_blocks[level + 1] >= 1) =>
          ch = Expected(kwargs.channel_mult[level + 1])
    /\ UpPathDone => ch = Expected(kwargs.channel_mult[1])
    /\ C9_ExampleHolds

C9_Witness ==
    /\ C9_Example
    /\ npc = "built" /\ ch = 32 /\ input_block_chans = <<>>
    /\ Len(input_blocks) = 4 /\ Len(output_blocks) = 4

(***************************************************************************)
(* Properties of forward.                                                  *)
(***************************************************************************)
\* C5: past the asserts (x_len is a multiple of LengthUnit), in evaluation
\* mode rand_start = 0 and rand_stop = N; in training mode, for every draw,
\* rand_stop - rand_start = N/2 and rand_start is even; forward returns
\* these bounds.
C5_Bounds ==
    /\ ForwardRan =>
          /\ x_len % LengthUnit = 0
          /\ ~training => (rand_start = 0 /\ rand_stop = x_len)
          /\ training => /\ 2 * (rand_stop - rand_start) = x_len
                         /\ rand_start % 2 = 0
                         /\ 0 <= rand_start /\ rand_stop <= x_len
    /\ fpc = "returned" => (fret[2] = rand_start /\ fret[3] = rand_stop)

C5_Witness ==
    /\ training /\ x_len = LengthUnit /\ fpc = "returned"
    /\ rand_start = 1000 /\ rand_stop = 3048
    /\ fret[2] = 1000 /\ fret[3] = 3048

\* C10: forward ends in AssertionError whenever the length of x is no
\* multiple of LengthUnit or conditioning is enabled and no conditioning
\* input is passed, and then no bounds are drawn and no module is evaluated;
\* with conditioning disabled, a missing conditioning input fails no assert.
C10_FailsAtEntry ==
    /\ (fpc # "init" /\ (x_len % LengthUnit # 0
                         \/ (kwargs.conditioning_inputs_provided /\ ~conditioning_input)))
          => fpc = "AssertionError"
    /\ fpc = "AssertionError" =>
          /\ rand_start = "unset" /\ rand_stop = "unset"
          /\ stages = 0 /\ hs = <<>> /\ top_blocks = <<>>
          /\ h = "unset" /\ fret = "unset"
    /\ (fpc # "init" /\ x_len % LengthUnit = 0
        /\ ~kwargs.conditioning_inputs_provided /\ ~conditioning_input)
          => fpc = "returned"

C10_Witness ==
    /\ fpc = "AssertionError" /\ stages = 0
    /\ x_len = LengthUnit /\ kwargs.conditioning_inputs_provided /\ ~conditioning_input

(***************************************************************************)
(* The length of the pyramid for every num_scales                          *)
(***************************************************************************)
\* 1 + 4 + 16 + ... + 4^(n-1)
GeometricSum(n) == LET g[i \in 0..n] == IF i = 0 THEN 0 ELSE g[i - 1] + Pow(4, i - 1) IN g[n]

\* C11: for every num_scales >= 1 the pyramid returned by __getitem__ (the
\* full image in slot 0, then the patches of recursively_extract_patches
\* started at depth 1) has 1 + 4 + 16 + ... + 4^(num_scales-1) entries, and
\* slot 0 is the full image.
C11_PyramidLength ==
    (ppc = "returned" /\ num_scales >= 1) =>
        /\ Len(patches_hq) = GeometricSum(num_scales)
        /\ patches_hq[1].src = [r |-> 0, c |-> 0, h |-> hq_size_cap, w |-> hq_size_cap]

C11_Witness ==
    /\ ppc = "returned" /\ num_scales = 3 /\ Len(patches_hq) = 21
    /\ patches_hq[21].src.h = 2 * tile_size /\ patches_hq[21].src.r = 6 * tile_size

(***************************************************************************)
(* Channel agreement along the main path                                   *)
(***************************************************************************)
IsConditioning(m) == m.kind = "DiscreteSpectrogramConditioningBlock"

\* the channel count a module of the main path was built to take, and the
\* one it was built to give (a conditioning block built for c gives 2c)
BuiltIn(m) == IF IsConditioning(m) THEN m.channels ELSE m.layers[1].cin

BuiltOut(m) == IF IsConditioning(m) THEN 2 * m.channels ELSE m.layers[Len(m.layers)].cout

\* the modules of input_blocks that are not conditioning blocks, in order
SkipModules == SelectSeq(input_blocks, LAMBDA m : ~IsConditioning(m))

\* forward before any module has run
MainStart == [status |-> "ok", h |-> "unset", hs |-> <<>>, top_blocks |-> <<>>, stages |-> 0]

\* the channels of h after k output blocks at forward time, each fed
\* h concatenated with the entry popped from the stack st; ok is FALSE
\* once a block was fed another count than its first layer was built for
UpChannels(mid, st) ==
    LET n == Len(output_blocks)
        u[k \in 0..n] ==
            IF k = 0 THEN [ok |-> TRUE, t |-> mid]
            ELSE LET p == u[k - 1]
                 IN  IF ~p.ok \/ k > Len(st) THEN [ok |-> FALSE, t |-> p.t]
                     ELSE LET e == st[Len(st) - (k - 1)]
                          IN  IF p.t.ch + e.ch # BuiltIn(output_blocks[k])
                              THEN [ok |-> FALSE, t |-> p.t]
                              ELSE RunModule(output_blocks[k],
                                             [ch |-> p.t.ch + e.ch, len |-> p.t.len])
    IN  u[n]

C13_TopLengthsAgree ==
    ForwardRan =>
        LET want == IF training THEN x_len \div 2 ELSE x_len
            kept == TopInput(MainStart, rand_start, rand_stop)
            main == OutputPath(Apply(InputPath(MainStart), middle_block))
            lo == rand_start \div 2
            hi == rand_stop \div 2
        IN  /\ 0 <= rand_start /\ rand_start <= rand_stop /\ rand_stop <= x_len
            /\ main.status = "ok"
            /\ 0 <= lo /\ lo <= hi /\ hi <= main.h.len
            /\ kept.status = "ok"
            /\ Len(kept.top_blocks) = Len(top_modules.top_out_blocks)
            /\ \A i \in 1..Len(kept.top_blocks) : kept.top_blocks[i].len = want
            /\ 2 * (hi - lo) = want
            /\ LET up == Apply([main EXCEPT !.h.len = hi - lo], top_modules.top_out_upsample)
               IN  up.status = "ok" /\ up.h.len = want
            /\ fpc = "returned"
            /\ top_blocks = <<>>
            /\ fret[1].len = want

C13_Witness ==
    /\ training /\ x_len = LengthUnit /\ fpc = "returned"
    /\ rand_start = 2048 /\ rand_stop = 4096
    /\ Len(top_modules.top_out_blocks) = 2 /\ top_blocks = <<>>
    /\ fret[1].len = 2048

(***************************************************************************)
(* Channels in the truncated top branch                                    *)
(***************************************************************************)
\* C14 as stated: for every argument list, top_out_upsample is built to
\* take the channels of the main path's output, int(channel_mult[0] *
\* model_channels), and to give model_channels; every top output block is
\* built for 2 * model_channels; and forward on lists of equal length meets
\* no channel mismatch in the top branch (it returns).
C14_TopUpsampleFitsMainOutput ==
    npc = "built" =>
        LET upsample == top_modules.top_out_upsample
            base == kwargs.model_channels
        IN  /\ BuiltIn(upsample) = Expected(kwargs.channel_mult[1])
            /\ BuiltOut(upsample) = base
            /\ \A j \in 1..Len(top_modules.top_out_blocks) :
                   BuiltIn(top_modules.top_out_blocks[j]) = 2 * base
            /\ (ForwardRan /\ EqualLengths) => fpc = "returned"

====
